---- MODULE Spec2Model ----
(***************************************************************************)
(* A model of the document-analysis programs of this repository:           *)
(*   - app.py   : the medical report analyzer (chunk_text, the streaming   *)
(*                generate call, the batch analysis and main's routing);   *)
(*   - agent.py : the chat agent's streaming generator (stream_chat) and   *)
(*                its consumer (chat_with_ollama);                         *)
(*   - sample.py: the shop page's AI assistant (main, get_ai_response);    *)
(*   - emp_db.py and empp_share.py: the two employee report analyzers;     *)
(*   - main.py  : the resume analyzer's analyze_resume;                    *)
(*   - gaming_dice.py: the dice game's loop.                               *)
(* A Python str is a sequence of characters (one-character strings); the   *)
(* literal messages of the code are single tokens of such a sequence.      *)
(***************************************************************************)
EXTENDS Integers, Sequences, FiniteSets, TLC

VARIABLES
    \* ---- chunk_text applied to one text (app.py:38-47)
    text,           \* the argument text: a sequence of characters
    max_words,      \* the argument max_words
    chunks_out,     \* the list chunk_text returned
    pc_chunk,       \* "off" | "call" | "done"
    \* ---- one run of app.py's main (app.py:182-312)
    is_connected,           \* check_ollama_connection's first result
    available_models,       \* its second: the backend's model listing
    model_name,             \* the model of the selectbox ("" before it is drawn)
    max_chunk_words,        \* the slider of app.py:227
    extracted_text,         \* the document: the extracted text, by its words
    use_batch_processing,   \* the checkbox of app.py:228
    pc_app,                 \* main's position
    frame,                  \* the call site of the analysis call under way
    chunks,                 \* analyze_with_ollama_batch's chunks, as slices
    i,                      \* its loop index (0-based, as enumerate gives it)
    analyses,               \* its list of labelled section results
    combined,               \* its "\n".join(analyses)
    analysis,               \* the value main receives
    pc_call,                \* analyze_with_ollama_streaming's position
    lines_read,             \* lines iter_lines has delivered to the call
    full_response,          \* the call's accumulated text
    requests,               \* every requests.post issued, in order
    st_log,                 \* every st.warning / st.error / st.success shown
    \* history of the run, kept for the properties
    chunk_results,          \* what each chunk's call returned, in chunk order
    done_received,          \* the call under way has read a done fragment
    malformed_skipped,      \* a call of the run has skipped a line that is no JSON
    outcomes,               \* how each call of analyze_with_ollama_streaming ended
    \* ---- the chat of agent.py (agent.py:34-117)
    chat_available_models,  \* ollama_client.available_models: the listing last fetched
    chat_model,             \* the model selected in the dropdown ("" for none)
    message,                \* the message chat_with_ollama was last called with
    temperature,            \* the temperature it was called with, in tenths
    max_tokens,             \* the max_tokens it was called with
    history,                \* the chat history: a list of [user, assistant] pairs
    pc_chat,                \* the position of chat_with_ollama and stream_chat
    chat_response,          \* stream_chat's full_response
    chat_lines_read,        \* lines iter_lines has delivered to this stream_chat call
    chat_requests,          \* the requests the last call sent to the backend, in order
    \* history of the call, kept for the properties
    snapshots,              \* what stream_chat has yielded in this call, in order
    chat_done_received,     \* stream_chat has read a done fragment in this call
    \* ---- the AI assistant page of sample.py (sample.py:64-317)
    sample_is_connected,      \* main's is_connected
    sample_available_models,  \* main's available_models
    ai_model,                 \* main's ai_model ("" before it is set)
    sample_chat_history,      \* st.session_state.chat_history
    sample_requests,          \* the requests of this run of the script, in order
    pc_sample,                \* "off" | "start" | "page" | "await"
    \* ---- the employee report analyzer of emp_db.py (emp_db.py:97-183)
    uploaded_file,          \* the file in the uploader in this run of main, or NoFile
    selected_model,         \* the model of the selectbox in this run of main
    session_pdf_text,       \* st.session_state['pdf_text'], Absent when not set
    db_requests,            \* the requests this run of main posted, in order
    pc_db,                  \* "off" | "page"
    \* ---- the employee report analyzer of empp_share.py (empp_share.py:134-173)
    pdf_upload,             \* the file in the upload component, or NoFile
    model_dropdown,         \* the model of the dropdown
    global_extracted_text,  \* the module's global extracted_text
    share_requests,         \* the requests the last handler posted, in order
    process_status,         \* what process_pdf last returned for the status box
    share_result,           \* what search_employee or get_all_employees last returned
    pc_share,               \* "off" | "idle"
    \* ---- analyze_resume of main.py (main.py:157-182)
    response_text,          \* the reply of client.chat, None before it arrives
    resume_analysis,        \* what analyze_resume returned
    pc_resume,              \* "off" | "call" | "reply" | "done"
    \* ---- the prompts of one chunked analyze_with_ollama_batch, by their
    \* characters (app.py:55-66, 110-143)
    char_text,              \* the text: the number and the length of its words
    char_i,                 \* the loop index
    char_analyses,          \* the list analyses, each a text
    char_prompts,           \* the prompt of every request, in order
    pc_char,                \* "off" | "loop" | "final" | "done"
    \* ---- dice_game of gaming_dice.py (gaming_dice.py:8-62)
    score,                  \* score
    high_score,             \* high_score
    rolls,                  \* every dice_value rolled, in order (history)
    last_action,            \* the button last chosen ("" before the first)
    pc_dice                 \* "off" | "loop" | "exited"

chunk_vars == <<text, max_words, chunks_out, pc_chunk>>

\* What main reads before the document: it stays as it is through the analysis.
session == <<is_connected, available_models, model_name, max_chunk_words>>

app_vars == <<session, extracted_text, use_batch_processing, pc_app, frame,
              chunks, i, analyses, combined, analysis, pc_call, lines_read,
              full_response, requests, st_log, chunk_results, done_received,
              malformed_skipped, outcomes>>

\* What the controls of the page hold, and what the call under way was called
\* with.
chat_controls == <<chat_available_models, chat_model>>
chat_args == <<message, temperature, max_tokens>>

chat_vars == <<chat_controls, chat_args, history, pc_chat, chat_response,
               chat_lines_read, chat_requests, snapshots, chat_done_received>>

sample_vars == <<sample_is_connected, sample_available_models, ai_model,
                 sample_chat_history, sample_requests, pc_sample>>

db_vars == <<uploaded_file, selected_model, session_pdf_text, db_requests, pc_db>>

share_vars == <<pdf_upload, model_dropdown, global_extracted_text,
                share_requests, process_status, share_result, pc_share>>

resume_vars == <<response_text, resume_analysis, pc_resume>>

char_vars == <<char_text, char_i, char_analyses, char_prompts, pc_char>>

dice_vars == <<score, high_score, rolls, last_action, pc_dice>>

vars == <<chunk_vars, app_vars, chat_vars, sample_vars, db_vars, share_vars,
          resume_vars, char_vars, dice_vars>>

\* All variables but those of one program.
not_chunk == <<app_vars, chat_vars, sample_vars, db_vars, share_vars,
               resume_vars, char_vars, dice_vars>>
not_app == <<chunk_vars, chat_vars, sample_vars, db_vars, share_vars,
             resume_vars, char_vars, dice_vars>>
not_chat == <<chunk_vars, app_vars, sample_vars, db_vars, share_vars,
              resume_vars, char_vars, dice_vars>>
not_sample == <<chunk_vars, app_vars, chat_vars, db_vars, share_vars,
                resume_vars, char_vars, dice_vars>>
not_db == <<chunk_vars, app_vars, chat_vars, sample_vars, share_vars,
            resume_vars, char_vars, dice_vars>>
not_share == <<chunk_vars, app_vars, chat_vars, sample_vars, db_vars,
               resume_vars, char_vars, dice_vars>>
not_resume == <<chunk_vars, app_vars, chat_vars, sample_vars, db_vars,
                share_vars, char_vars, dice_vars>>
not_char == <<chunk_vars, app_vars, chat_vars, sample_vars, db_vars,
              share_vars, resume_vars, dice_vars>>
not_dice == <<chunk_vars, app_vars, chat_vars, sample_vars, db_vars,
              share_vars, resume_vars, char_vars>>

-----------------------------------------------------------------------------
\* Bounds of the model.

\* Longest text handed to chunk_text, in characters.
MaxTextLen == 5
\* Largest max_words handed to chunk_text.
MaxWordsArg == 3

-----------------------------------------------------------------------------
\* Python strings.

\* The characters of the texts: two letters and two kinds of whitespace.
Letters == {"a", "b"}
Whitespace == {" ", "\n"}
Chars == Letters \cup Whitespace

\* All sequences over S of length at most n.
SeqsUpTo(S, n) == UNION {[1..k -> S] : k \in 0..n}

Min(a, b) == IF a < b THEN a ELSE b

\* str.split() without arguments: the maximal runs of non-whitespace
\* characters, in order; runs of whitespace separate and are dropped.
RECURSIVE split_acc(_, _, _)
split_acc(s, cur, acc) ==
    IF s = <<>>
    THEN IF cur = <<>> THEN acc ELSE Append(acc, cur)
    ELSE IF Head(s) \in Whitespace
         THEN split_acc(Tail(s), <<>>, IF cur = <<>> THEN acc ELSE Append(acc, cur))
         ELSE split_acc(Tail(s), Append(cur, Head(s)), acc)

split(s) == split_acc(s, <<>>, <<>>)

\* sep.join(parts): the parts with sep between consecutive ones.
RECURSIVE join(_, _)
join(sep, parts) ==
    IF parts = <<>> THEN <<>>
    ELSE IF Len(parts) = 1 THEN parts[1]
    ELSE parts[1] \o sep \o join(sep, Tail(parts))

\* The concatenation of a sequence of sequences.
RECURSIVE Flatten(_)
Flatten(ss) == IF ss = <<>> THEN <<>> ELSE Head(ss) \o Flatten(Tail(ss))

-----------------------------------------------------------------------------
\* chunk_text (app.py:38-47).

\* range(0, len, step): the start offsets 0, step, 2*step, ... below len.
RangeStarts(len, step) ==
    [k \in 1..((len + step - 1) \div step) |-> (k - 1) * step]

\* The loop of chunk_text over a list of len words: for every start offset
\* the slice words[from:from + n], which Python clamps to the end of the list.
\* A variant that stops before a last, shorter slice (C1 is tried against it).
ChunkSpans_dropTail(len, n) ==
    [k \in 1..(len \div n) |-> [from |-> (k - 1) * n, to |-> k * n]]

\* A variant whose slices are one word too long (C2 is tried against it).
ChunkSpans_overlap(len, n) ==
    [k \in 1..Len(RangeStarts(len, n)) |->
        [from |-> RangeStarts(len, n)[k],
         to |-> Min(RangeStarts(len, n)[k] + n + 1, len)]]

ChunkSpans(len, n) ==
    [k \in 1..Len(RangeStarts(len, n)) |->
        [from |-> RangeStarts(len, n)[k],
         to |-> Min(RangeStarts(len, n)[k] + n, len)]]

\* words[from:to].
Slice(words, span) == SubSeq(words, span.from + 1, span.to)

\* The word lists of the chunks.
WordChunks(words, n) ==
    [k \in 1..Len(ChunkSpans(Len(words), n)) |->
        Slice(words, ChunkSpans(Len(words), n)[k])]

\* chunk_text(text, max_words): every slice joined by single spaces.
chunk_text(s, n) ==
    LET wc == WordChunks(split(s), n)
    IN  [k \in 1..Len(wc) |-> join(<<" ">>, wc[k])]

-----------------------------------------------------------------------------
\* Python values of type Optional[str], and the constants of app.py.

None == [none |-> TRUE, str |-> <<>>]
Str(s) == [none |-> FALSE, str |-> s]
\* `if v:` for an Optional[str]: neither None nor the empty string.
Truthy(v) == ~v.none /\ v.str # <<>>

\* len(extracted_text.split()) > 800 routes to the batch analysis (app.py:280).
MainThreshold == 800
\* len(text.split()) > 1000 splits the text into chunks (app.py:110).
BatchThreshold == 1000
\* chunk_text(text, 600) (app.py:111).
BatchChunkWords == 600
\* response.status_code == 200 (app.py:81, agent.py:63).
StatusOK == 200
\* The status codes a response comes with: success, or a server error.
StatusCodes == {StatusOK, 500}

\* Most chunks a document of the model is split into.
MaxChunks == 3
\* Most lines one streamed response delivers.
MaxLines == 2

\* main and analyze_with_ollama_batch read the extracted text through
\* len(text.split()) and through the slices chunk_text takes of text.split();
\* the model holds a document as the number of its words, and a chunk as the
\* slice [from, to) of the document's word list it is. The documents are those
\* around the thresholds and around the ends of the chunks.
DocWordCounts ==
    {0, 1, MainThreshold, MainThreshold + 1, BatchThreshold, BatchThreshold + 1}
    \cup {k * BatchChunkWords : k \in 2..MaxChunks}
    \cup {k * BatchChunkWords + 1 : k \in 2..(MaxChunks - 1)}
Docs == {[words |-> n] : n \in DocWordCounts}

\* The lines response.iter_lines() can deliver to analyze_with_ollama_streaming:
\* an empty keep-alive line, a line that is not JSON, or a JSON object with or
\* without a 'response' text and with or without a true 'done'.
ReplyTexts == {<<>>, <<"x">>}
GenerateLines ==
    {[kind |-> k, has |-> FALSE, content |-> <<>>, done |-> FALSE] :
        k \in {"empty", "malformed"}}
    \cup {[kind |-> "json", has |-> FALSE, content |-> <<>>, done |-> d] :
        d \in BOOLEAN}
    \cup {[kind |-> "json", has |-> TRUE, content |-> c, done |-> d] :
        c \in ReplyTexts, d \in BOOLEAN}

\* The answers of GET /api/tags that check_ollama_connection reads (app.py:
\* 154-164): a listing without a model, or one of two models.
ModelListings == {<<>>, <<"phi", "llama2">>}
\* any(name in m.lower() for name in ['mistral', 'llama', 'codellama',
\* 'dolphin']) (app.py:205), on the names of the listings.
IsPreferred(m) == m \in {"llama2"}
\* model_options (app.py:205-206).
ModelOptions(models) ==
    IF SelectSeq(models, IsPreferred) # <<>>
    THEN SelectSeq(models, IsPreferred) ELSE models
\* The positions of the slider st.slider("Max words per chunk", 300, 1000, 600)
\* (app.py:227): its lower end and its default.
SliderValues == {300, 600}

\* `if extracted_text:` (app.py:250, 276).
\* A variant that takes every text for one (C12 is tried against it).
HasText_always(doc) == TRUE
HasText(doc) == doc.words > 0

\* f"**Section {i+1}:**\n{analysis}\n" (app.py:121).
Section(n, v) == <<"**Section " \o ToString(n) \o ":**\n">> \o v.str \o <<"\n">>

\* len(text.split()) > 1000 (app.py:110).
\* A variant that splits at the threshold already (C3 is tried against it).
BatchSplits_atThreshold(doc) == doc.words >= BatchThreshold
BatchSplits(doc) == doc.words > BatchThreshold

\* use_batch_processing and len(extracted_text.split()) > 800 (app.py:280).
MainRoutesToBatch == use_batch_processing /\ extracted_text.words > MainThreshold

-----------------------------------------------------------------------------
\* analyze_with_ollama_batch around its calls (app.py:106-152), and main around
\* its own (app.py:275-312): what the caller does with the value v that
\* analyze_with_ollama_streaming returns, up to the next call or to main's
\* display. log is st_log with what the call itself has shown.

\* A variant that leaves the loop at the first chunk that fails (C10 is tried
\* against it).
AfterChunkCall_abort(v, log) ==
    LET analyses1 == IF Truthy(v) THEN Append(analyses, Section(i + 1, v))
                     ELSE analyses
        more == Truthy(v) /\ i + 1 < Len(chunks)
    IN  /\ analyses' = analyses1
        /\ chunk_results' = Append(chunk_results, v)
        /\ i' = i + 1
        /\ st_log' = log
        /\ IF more
           THEN /\ pc_call' = "post"
                /\ UNCHANGED <<frame, combined, analysis, pc_app>>
           ELSE IF analyses1 # <<>>
           THEN /\ combined' = join(<<"\n">>, analyses1)
                /\ frame' = "batch_final"
                /\ pc_call' = "post"
                /\ UNCHANGED <<analysis, pc_app>>
           ELSE /\ analysis' = Str(<<"Failed to analyze any sections">>)
                /\ frame' = "none"
                /\ pc_call' = "idle"
                /\ pc_app' = "present"
                /\ UNCHANGED combined

\* A variant that puts each new section first (C9 is tried against it).
AfterChunkCall_prepend(v, log) ==
    LET analyses1 == IF Truthy(v) THEN <<Section(i + 1, v)>> \o analyses
                     ELSE analyses
        more == i + 1 < Len(chunks)
    IN  /\ analyses' = analyses1
        /\ chunk_results' = Append(chunk_results, v)
        /\ i' = i + 1
        /\ st_log' = log
        /\ IF more
           THEN /\ pc_call' = "post"
                /\ UNCHANGED <<frame, combined, analysis, pc_app>>
           ELSE IF analyses1 # <<>>
           THEN /\ combined' = join(<<"\n">>, analyses1)
                /\ frame' = "batch_final"
                /\ pc_call' = "post"
                /\ UNCHANGED <<analysis, pc_app>>
           ELSE /\ analysis' = Str(<<"Failed to analyze any sections">>)
                /\ frame' = "none"
                /\ pc_call' = "idle"
                /\ pc_app' = "present"
                /\ UNCHANGED combined

\* Lines 120-145, after the call of line 119 returns v for chunk i.
AfterChunkCall(v, log) ==
    LET analyses1 == IF Truthy(v) THEN Append(analyses, Section(i + 1, v))
                     ELSE analyses
        more == i + 1 < Len(chunks)
    IN  /\ analyses' = analyses1
        /\ chunk_results' = Append(chunk_results, v)
        /\ i' = i + 1
        /\ st_log' = log
        /\ IF more
           THEN /\ pc_call' = "post"
                /\ UNCHANGED <<frame, combined, analysis, pc_app>>
           ELSE IF analyses1 # <<>>
           THEN /\ combined' = join(<<"\n">>, analyses1)
                /\ frame' = "batch_final"
                /\ pc_call' = "post"
                /\ UNCHANGED <<analysis, pc_app>>
           ELSE /\ analysis' = Str(<<"Failed to analyze any sections">>)
                /\ frame' = "none"
                /\ pc_call' = "idle"
                /\ pc_app' = "present"
                /\ UNCHANGED combined

\* A variant that hands on whatever the consolidation call returned (C11 is
\* tried against it).
AfterFinalCall_propagate(v, log) ==
    /\ analysis' = v
    /\ st_log' = log
    /\ frame' = "none"
    /\ pc_call' = "idle"
    /\ pc_app' = "present"
    /\ UNCHANGED <<analyses, chunk_results, i, combined>>

\* Line 143, after the consolidation call of line 142 returns v.
AfterFinalCall(v, log) ==
    /\ analysis' = IF Truthy(v) THEN v ELSE Str(join(<<"\n">>, analyses))
    /\ st_log' = log
    /\ frame' = "none"
    /\ pc_call' = "idle"
    /\ pc_app' = "present"
    /\ UNCHANGED <<analyses, chunk_results, i, combined>>

\* Line 148 (the batch analysis of a text it does not split) and line 283
\* (main's own call): v goes to main as it is.
\* A variant that sends the prompt once more after a call that failed (C23 is
\* tried against it).
AfterDirectCall_retry(v, log) ==
    /\ st_log' = log
    /\ IF ~Truthy(v) /\ Len(requests) < 2
       THEN /\ pc_call' = "post"
            /\ UNCHANGED <<analysis, frame, pc_app>>
       ELSE /\ analysis' = v
            /\ frame' = "none"
            /\ pc_call' = "idle"
            /\ pc_app' = "present"
    /\ UNCHANGED <<analyses, chunk_results, i, combined>>

AfterDirectCall(v, log) ==
    /\ analysis' = v
    /\ st_log' = log
    /\ frame' = "none"
    /\ pc_call' = "idle"
    /\ pc_app' = "present"
    /\ UNCHANGED <<analyses, chunk_results, i, combined>>

\* analyze_with_ollama_streaming returns v to the call site under way.
Return(v, log) ==
    IF frame = "batch_chunk" THEN AfterChunkCall(v, log)
    ELSE IF frame = "batch_final" THEN AfterFinalCall(v, log)
    ELSE AfterDirectCall(v, log)

-----------------------------------------------------------------------------
\* main (app.py:237-312).

\* Lines 187-223: the connection check and the model selection; without a
\* connection or without a model the run stops.
CheckConnection ==
    /\ UNCHANGED not_app
    /\ pc_app = "start"
    /\ \E connected \in BOOLEAN, models \in ModelListings :
          /\ is_connected' = connected
          /\ available_models' = IF connected THEN models ELSE <<>>
          /\ IF ~connected
             THEN /\ st_log' = Append(st_log, "error: Cannot connect to Ollama.")
                  /\ pc_app' = "stopped"
                  /\ UNCHANGED model_name
             ELSE IF models = <<>>
             THEN /\ st_log' = Append(st_log, "error: No models found. Please pull a model")
                  /\ pc_app' = "stopped"
                  /\ UNCHANGED model_name
             ELSE /\ st_log' = st_log
                  /\ pc_app' = "extracted"
                  /\ \E m \in 1..Len(ModelOptions(models)) :
                        model_name' = ModelOptions(models)[m]
    /\ UNCHANGED <<max_chunk_words, extracted_text, use_batch_processing, frame,
                   chunks, i, analyses, combined, analysis, pc_call, lines_read,
                   full_response, requests, chunk_results, done_received,
                   malformed_skipped, outcomes>>

\* Lines 250-270: the extracted text is shown, or the run stops without one.
ShowExtracted ==
    /\ UNCHANGED not_app
    /\ pc_app = "extracted"
    /\ IF HasText(extracted_text)
       THEN /\ pc_app' = "button"
            /\ st_log' = IF extracted_text.words > BatchThreshold
                         THEN Append(st_log, "warning: Large document detected. Will use batch processing.")
                         ELSE st_log
       ELSE /\ pc_app' = "stopped"
            /\ st_log' = Append(st_log, "error: Could not extract text from PDF")
    /\ UNCHANGED <<session, extracted_text, use_batch_processing, frame, chunks,
                   i, analyses, combined, analysis, pc_call, lines_read,
                   full_response, requests, chunk_results, done_received,
                   malformed_skipped, outcomes>>

\* Lines 275-283 and 108-119/148: the button is pressed; main calls the batch
\* analysis or the streaming analysis, and the batch analysis splits the text
\* or calls the streaming analysis on all of it.
\* Without a text (line 276) main shows an error instead (line 312).
ClickAnalyze ==
    /\ UNCHANGED not_app
    /\ pc_app = "button"
    /\ IF HasText(extracted_text)
       THEN /\ pc_app' = "analyzing"
            /\ pc_call' = "post"
            /\ st_log' = st_log
            /\ IF MainRoutesToBatch
               THEN IF BatchSplits(extracted_text)
                    THEN /\ chunks' = ChunkSpans(extracted_text.words, BatchChunkWords)
                         /\ frame' = "batch_chunk"
                    ELSE /\ chunks' = chunks
                         /\ frame' = "batch_direct"
               ELSE /\ chunks' = chunks
                    /\ frame' = "main_direct"
       ELSE /\ pc_app' = "no_text"
            /\ st_log' = Append(st_log, "error: No text to analyze")
            /\ UNCHANGED <<pc_call, chunks, frame>>
    /\ UNCHANGED <<session, extracted_text, use_batch_processing, i, analyses,
                   combined, analysis, lines_read, full_response, requests,
                   chunk_results, done_received, malformed_skipped, outcomes>>

\* Lines 288-310: main shows the analysis, or that it failed.
Present ==
    /\ UNCHANGED not_app
    /\ pc_app = "present"
    /\ pc_app' = "done"
    /\ st_log' = IF Truthy(analysis)
                 THEN Append(st_log, "success: Analysis completed")
                 ELSE Append(st_log, "error: Analysis failed. Try with a different model or shorter text.")
    /\ UNCHANGED <<session, extracted_text, use_batch_processing, frame, chunks,
                   i, analyses, combined, analysis, pc_call, lines_read,
                   full_response, requests, chunk_results, done_received,
                   malformed_skipped, outcomes>>

-----------------------------------------------------------------------------
\* analyze_with_ollama_streaming (app.py:49-104).

call_frame == <<session, extracted_text, use_batch_processing, chunks>>
\* The history of the calls before the one under way.
call_history == <<outcomes, malformed_skipped>>
\* The locals of the call: they start afresh with every call and are dropped, in
\* the model reset, when it returns.
call_locals == <<lines_read, full_response, done_received>>

\* The call under way ends in the way `kind` with the value v (history).
Outcome(kind, v) ==
    [site |-> frame, section |-> IF frame = "batch_chunk" THEN i + 1 ELSE 0,
     kind |-> kind, value |-> v]

\* Lines 68-79: the request is posted, with the model it was called with.
\* A variant that posts the request of the next chunk along with that of the
\* chunk under way (C22 is tried against it).
PostRequest_ahead ==
    /\ UNCHANGED not_app
    /\ pc_call = "post"
    /\ requests' =
          Append(requests, [site |-> frame,
                            section |-> IF frame = "batch_chunk" THEN i + 1 ELSE 0,
                            model |-> model_name])
          \o (IF frame = "batch_chunk" /\ i + 1 < Len(chunks)
              THEN <<[site |-> frame, section |-> i + 2, model |-> model_name]>>
              ELSE <<>>)
    /\ pc_call' = "await"
    /\ lines_read' = 0
    /\ full_response' = <<>>
    /\ done_received' = FALSE
    /\ UNCHANGED <<call_frame, call_history, pc_app, frame, i, analyses,
                   combined, analysis, st_log, chunk_results>>

PostRequest ==
    /\ UNCHANGED not_app
    /\ pc_call = "post"
    /\ requests' = Append(requests, [site |-> frame,
                                     section |-> IF frame = "batch_chunk" THEN i + 1 ELSE 0,
                                     model |-> model_name])
    /\ pc_call' = "await"
    /\ lines_read' = 0
    /\ full_response' = <<>>
    /\ done_received' = FALSE
    /\ UNCHANGED <<call_frame, call_history, pc_app, frame, i, analyses,
                   combined, analysis, st_log, chunk_results>>

\* Lines 99-101: the post times out.
PostTimeout ==
    /\ UNCHANGED not_app
    /\ pc_call = "await"
    /\ Return(None, Append(st_log, "error: Request timed out even with streaming."))
    /\ outcomes' = Append(outcomes, Outcome("timeout", None))
    /\ UNCHANGED <<call_frame, call_locals, requests, malformed_skipped>>

\* Lines 102-104: the post raises another exception (no connection).
PostException ==
    /\ UNCHANGED not_app
    /\ pc_call = "await"
    /\ Return(None, Append(st_log, "error: Error calling Ollama"))
    /\ outcomes' = Append(outcomes, Outcome("exception", None))
    /\ UNCHANGED <<call_frame, call_locals, requests, malformed_skipped>>

\* Lines 81-82 and 95-97: the response arrives with its status code.
PostResponse ==
    /\ UNCHANGED not_app
    /\ pc_call = "await"
    /\ \E status \in StatusCodes :
          IF status = StatusOK
          THEN /\ pc_call' = "iter"
               /\ UNCHANGED <<pc_app, frame, i, analyses, combined, analysis,
                              st_log, chunk_results, outcomes>>
          ELSE /\ Return(None, Append(st_log, "error: Ollama API error"))
               /\ outcomes' = Append(outcomes, Outcome("status", None))
    /\ UNCHANGED <<call_frame, call_locals, requests, malformed_skipped>>

\* Line 94: the value returned after the loop.
StreamingResult(full) == IF full # <<>> THEN Str(full) ELSE Str(<<"No response generated">>)

\* How a call that read its response to the end ended.
StreamedKind(full) == IF full # <<>> THEN "ok" ELSE "empty"

\* Lines 83-92: one line of the response.
IterLine(line) ==
    LET full == IF line.kind = "json" /\ line.has
                THEN full_response \o line.content ELSE full_response
        done == line.kind = "json" /\ line.done
    IN  /\ pc_call = "iter"
        /\ UNCHANGED not_app
        /\ lines_read < MaxLines
        /\ done_received' = (done_received \/ done)
        /\ malformed_skipped' = (malformed_skipped \/ line.kind = "malformed")
        /\ IF done
           THEN /\ Return(StreamingResult(full), st_log)
                /\ outcomes' = Append(outcomes,
                       Outcome(StreamedKind(full), StreamingResult(full)))
                /\ lines_read' = 0
                /\ full_response' = <<>>
           ELSE /\ lines_read' = lines_read + 1
                /\ full_response' = full
                /\ UNCHANGED <<pc_app, pc_call, frame, i, analyses, combined,
                               analysis, st_log, chunk_results, outcomes>>
        /\ UNCHANGED <<call_frame, requests>>

ReadLine == \E line \in GenerateLines : IterLine(line)

\* Lines 102-104: iter_lines, or the handling of a line, raises an exception
\* that is not a JSONDecodeError (the connection breaks, the line is JSON but
\* no object).
IterException ==
    /\ UNCHANGED not_app
    /\ pc_call = "iter"
    /\ Return(None, Append(st_log, "error: Error calling Ollama"))
    /\ outcomes' = Append(outcomes, Outcome("exception", None))
    /\ lines_read' = 0
    /\ full_response' = <<>>
    /\ UNCHANGED <<call_frame, requests, done_received, malformed_skipped>>

\* Lines 83 and 94: the response ends and the loop with it.
IterEnd ==
    /\ UNCHANGED not_app
    /\ pc_call = "iter"
    /\ Return(StreamingResult(full_response), st_log)
    /\ outcomes' = Append(outcomes,
           Outcome(StreamedKind(full_response), StreamingResult(full_response)))
    /\ lines_read' = 0
    /\ full_response' = <<>>
    /\ UNCHANGED <<call_frame, requests, done_received, malformed_skipped>>

-----------------------------------------------------------------------------
\* agent.py: stream_chat (34-85), format_chat_history (90-98) and
\* chat_with_ollama (100-117). In the messages stream_chat yields about an
\* error, "(x)" stands for the cross mark the code starts them with.

\* Most turns of one chat.
MaxTurns == 2

\* The messages a user sends: none, a blank one, a question.
UserMessages == {<<>>, <<" ">>, <<"q">>}
\* The settings of the temperature and max-tokens sliders (agent.py:165-181):
\* their defaults (0.7 and 1000), and another position of both.
ChatSettings == {[temperature |-> 7, max_tokens |-> 1000],
                 [temperature |-> 10, max_tokens |-> 50]}
\* The listings refresh_models fetches (agent.py:13-24): none (also when the
\* backend does not answer), or one model.
ChatListings == {<<>>, <<"llama2">>}
\* The value the dropdown is given with a listing (agent.py:122, 160): its
\* first model, or none.
DropdownDefault(models) == IF models = <<>> THEN "" ELSE models[1]
\* The texts a fragment of a chat response carries.
ChatTexts == {<<>>, <<"x">>, <<"y">>}

\* The lines response.iter_lines() can deliver to stream_chat: an empty
\* keep-alive line, a line that is not JSON, or a JSON object with or without
\* a message content and with or without a true 'done'.
ChatLines ==
    {[kind |-> k, has |-> FALSE, content |-> <<>>, done |-> FALSE] :
        k \in {"empty", "malformed"}}
    \cup {[kind |-> "json", has |-> FALSE, content |-> <<>>, done |-> d] :
        d \in BOOLEAN}
    \cup {[kind |-> "json", has |-> TRUE, content |-> c, done |-> d] :
        c \in ChatTexts, d \in BOOLEAN}

\* message.strip(): the message without its leading and trailing whitespace;
\* only its emptiness is used (agent.py:102).
\* A variant that takes only the empty message for blank (C29 is tried
\* against it).
StripIsEmpty_emptyOnly(m) == m = <<>>
StripIsEmpty(m) == \A k \in 1..Len(m) : m[k] \in Whitespace

\* format_chat_history (agent.py:90-98).
\* A variant that puts the reply of a turn before its question (C27 is tried
\* against it).
format_chat_history_replyFirst(h) ==
    Flatten([k \in 1..Len(h) |->
        (IF h[k][2] # <<>> THEN <<[role |-> "assistant", content |-> h[k][2]]>> ELSE <<>>)
        \o (IF h[k][1] # <<>> THEN <<[role |-> "user", content |-> h[k][1]]>> ELSE <<>>)])

RECURSIVE format_chat_history(_)
format_chat_history(h) ==
    IF h = <<>> THEN <<>>
    ELSE (IF h[1][1] # <<>> THEN <<[role |-> "user", content |-> h[1][1]]>> ELSE <<>>)
         \o (IF h[1][2] # <<>> THEN <<[role |-> "assistant", content |-> h[1][2]]>> ELSE <<>>)
         \o format_chat_history(Tail(h))

\* stream_chat yields s, and chat_with_ollama stores it as the reply of the
\* turn under way (agent.py:113-115).
Yield(s) ==
    /\ snapshots' = Append(snapshots, s)
    /\ history' = [history EXCEPT ![Len(history)] = <<history[Len(history)][1], s>>]

\* stream_chat returns: the turn is over.
ChatReturn ==
    /\ pc_chat' = "idle"
    /\ chat_response' = <<>>

\* The refresh button (agent.py:119-125, 224-227): the listing is fetched anew
\* and the dropdown set to its first model, or to none.
RefreshModels ==
    /\ UNCHANGED not_chat
    /\ pc_chat = "idle"
    /\ \E models \in ChatListings :
          /\ chat_available_models' = models
          /\ chat_model' = DropdownDefault(models)
    /\ UNCHANGED <<chat_args, history, pc_chat, chat_response, chat_lines_read,
                   chat_requests, snapshots, chat_done_received>>

\* chat_with_ollama is called (agent.py:100-110, 230-240) with the message and
\* the values of the controls and, through it, stream_chat up to its status
\* check (agent.py:36-40).
SendMessage ==
    /\ UNCHANGED not_chat
    /\ pc_chat = "idle"
    /\ Len(history) < MaxTurns
    /\ \E m \in UserMessages, o \in ChatSettings :
        /\ message' = m
        /\ temperature' = o.temperature
        /\ max_tokens' = o.max_tokens
        /\ IF StripIsEmpty(m)
           THEN /\ chat_requests' = <<>>
                /\ UNCHANGED <<history, pc_chat, chat_response, chat_lines_read,
                               snapshots, chat_done_received>>
           ELSE /\ chat_done_received' = FALSE
                /\ IF chat_model = ""
                   THEN /\ snapshots' = <<<<"(x) Please select a model first.">>>>
                        /\ history' = Append(history, <<m, <<"(x) Please select a model first.">>>>)
                        /\ ChatReturn
                        /\ chat_lines_read' = 0
                        /\ chat_requests' = <<>>
                   ELSE /\ snapshots' = <<>>
                        /\ history' = Append(history, <<m, <<>>>>)
                        /\ chat_requests' =
                               <<[kind |-> "status", model |-> "", messages |-> <<>>,
                                  options |-> <<>>]>>
                        /\ pc_chat' = "status"
                        /\ chat_lines_read' = 0
                        /\ UNCHANGED chat_response
    /\ UNCHANGED chat_controls

\* The options of the chat request (agent.py:50-52).
ChatOptions(t, n) == [temperature |-> t]

\* check_ollama_status answers (agent.py:26-32, 40-42); when the backend runs,
\* the chat request is posted (agent.py:46-61).
StatusAnswer ==
    /\ UNCHANGED not_chat
    /\ pc_chat = "status"
    /\ \E running \in BOOLEAN :
        IF running
        THEN /\ chat_requests' = Append(chat_requests,
                    [kind |-> "chat", model |-> chat_model,
                     messages |-> Append(format_chat_history(SubSeq(history, 1, Len(history) - 1)),
                                         [role |-> "user", content |-> message]),
                     options |-> ChatOptions(temperature, max_tokens)])
             /\ pc_chat' = "await"
             /\ UNCHANGED <<history, snapshots, chat_response>>
        ELSE /\ Yield(<<"(x) Ollama is not running. Please start Ollama first.">>)
             /\ ChatReturn
             /\ UNCHANGED chat_requests
    /\ UNCHANGED <<chat_controls, chat_args, chat_lines_read, chat_done_received>>

\* The post raises (agent.py:82-85): a RequestException or another exception.
ChatPostException ==
    /\ UNCHANGED not_chat
    /\ pc_chat = "await"
    /\ \E msg \in {"(x) Connection error", "(x) Unexpected error"} : Yield(<<msg>>)
    /\ ChatReturn
    /\ UNCHANGED <<chat_controls, chat_args, chat_lines_read, chat_requests,
                   chat_done_received>>

\* The response arrives with its status code (agent.py:63-67).
ChatResponse ==
    /\ UNCHANGED not_chat
    /\ pc_chat = "await"
    /\ \E status \in StatusCodes :
        IF status = StatusOK
        THEN /\ pc_chat' = "iter"
             /\ chat_response' = <<>>
             /\ UNCHANGED <<history, snapshots>>
        ELSE /\ Yield(<<"(x) Error: " \o ToString(status)>>)
             /\ ChatReturn
    /\ UNCHANGED <<chat_controls, chat_args, chat_lines_read, chat_requests,
                   chat_done_received>>

\* A variant that reads on after a done fragment (C8 is tried against it).
ChatIterLine_noBreak(line) ==
    LET has == line.kind = "json" /\ line.has
        full == IF has THEN chat_response \o line.content ELSE chat_response
        done == line.kind = "json" /\ line.done
    IN  /\ UNCHANGED not_chat
        /\ pc_chat = "iter"
        /\ chat_lines_read < MaxLines
        /\ chat_done_received' = (chat_done_received \/ done)
        /\ IF has THEN Yield(full) ELSE UNCHANGED <<history, snapshots>>
        /\ chat_response' = full
        /\ chat_lines_read' = chat_lines_read + 1
        /\ UNCHANGED <<pc_chat, chat_controls, chat_args, chat_requests>>

\* One line of the response (agent.py:68-80).
ChatIterLine(line) ==
    LET has == line.kind = "json" /\ line.has
        full == IF has THEN chat_response \o line.content ELSE chat_response
        done == line.kind = "json" /\ line.done
    IN  /\ UNCHANGED not_chat
        /\ pc_chat = "iter"
        /\ chat_lines_read < MaxLines
        /\ chat_done_received' = (chat_done_received \/ done)
        /\ IF has THEN Yield(full) ELSE UNCHANGED <<history, snapshots>>
        /\ chat_lines_read' = chat_lines_read + 1
        /\ IF done
           THEN ChatReturn
           ELSE /\ chat_response' = full
                /\ UNCHANGED pc_chat
        /\ UNCHANGED <<chat_controls, chat_args, chat_requests>>

ChatReadLine == \E line \in ChatLines : ChatIterLine(line)

\* iter_lines, or the handling of a line, raises (agent.py:82-85): the
\* connection breaks (a RequestException), or the line is JSON of another
\* shape than the code reads (another exception).
ChatIterException ==
    /\ UNCHANGED not_chat
    /\ pc_chat = "iter"
    /\ \E msg \in {"(x) Connection error", "(x) Unexpected error"} : Yield(<<msg>>)
    /\ ChatReturn
    /\ UNCHANGED <<chat_controls, chat_args, chat_lines_read, chat_requests,
                   chat_done_received>>

\* The response ends, and stream_chat with it (agent.py:68).
ChatIterEnd ==
    /\ UNCHANGED not_chat
    /\ pc_chat = "iter"
    /\ ChatReturn
    /\ UNCHANGED <<chat_controls, chat_args, history, chat_lines_read,
                   chat_requests, snapshots, chat_done_received>>

-----------------------------------------------------------------------------
\* sample.py: the AI assistant page of main (sample.py:133-141, 265-328) and
\* get_ai_response (sample.py:76-112).

\* The listings check_ollama_connection reads (sample.py:64-74): none, one
\* without a mistral model, one with.
SampleListings == {<<>>, <<"phi">>, <<"phi", "mistral">>}
\* 'mistral' in m.lower() (sample.py:137), on the names of the listings.
IsMistral(m) == m \in {"mistral"}

\* The model main settles on (sample.py:135-141).
AiModel(connected, models) ==
    IF connected
    THEN IF SelectSeq(models, IsMistral) # <<>> THEN SelectSeq(models, IsMistral)[1]
         ELSE IF models # <<>> THEN models[1] ELSE "mistral"
    ELSE "mistral"

\* A run of the script starts (sample.py:133-141): the connection is checked
\* and the model settled.
SampleConnect ==
    /\ UNCHANGED not_sample
    /\ pc_sample = "start"
    /\ \E connected \in BOOLEAN, models \in SampleListings :
          /\ sample_is_connected' = connected
          /\ sample_available_models' = IF connected THEN models ELSE <<>>
          /\ ai_model' = AiModel(connected, IF connected THEN models ELSE <<>>)
    /\ sample_requests' = <<>>
    /\ pc_sample' = "page"
    /\ UNCHANGED sample_chat_history

\* A question is asked on the assistant page (sample.py:303-317): when the
\* assistant is online, get_ai_response posts it with the model (sample.py:
\* 93-103); offline, the page has no button to ask with (sample.py:268-275).
AskAssistant ==
    /\ UNCHANGED not_sample
    /\ pc_sample = "page"
    /\ sample_is_connected
    /\ Len(sample_chat_history) < MaxTurns
    /\ sample_requests' = Append(sample_requests, [model |-> ai_model])
    /\ pc_sample' = "await"
    /\ UNCHANGED <<sample_is_connected, sample_available_models, ai_model,
                   sample_chat_history>>

\* The answers get_ai_response returns (sample.py:105-112): the response text
\* or its stand-in, the message of a non-success status, the message of an
\* exception.
AiResponses ==
    {"response", "Sorry, I could not process your request.",
     "Sorry, our AI assistant is currently unavailable.", "Error"}

\* get_ai_response returns and the answer joins the history (sample.py:306-307,
\* 317-318); the script has run to its end.
AssistantAnswers ==
    /\ UNCHANGED not_sample
    /\ pc_sample = "await"
    /\ \E ai \in AiResponses :
          sample_chat_history' = Append(sample_chat_history, [user |-> "q", ai |-> ai])
    /\ pc_sample' = "start"
    /\ UNCHANGED <<sample_is_connected, sample_available_models, ai_model,
                   sample_requests>>

\* The user does something else on the page: the script runs again.
SampleRerun ==
    /\ UNCHANGED not_sample
    /\ pc_sample = "page"
    /\ pc_sample' = "start"
    /\ UNCHANGED <<sample_is_connected, sample_available_models, ai_model,
                   sample_chat_history, sample_requests>>

-----------------------------------------------------------------------------
\* The employee report analyzers: emp_db.py (a Streamlit page, whose main runs
\* again on every interaction) and empp_share.py (a Gradio page, whose handlers
\* are called on the clicks).

\* No file in the upload component (None in both programs).
NoFile == "(no file)"
\* The files a user uploads: two reports, and a file PyPDF2 cannot read.
Files == {"A", "B", "bad"}
Uploads == {NoFile} \cup Files
\* The text of the pages of a report, as one token.
PagesText(file) == IF file = "A" THEN "docA" ELSE "docB"

\* The model names offered by both pages (emp_db.py:110, empp_share.py:215),
\* two of them.
EmpModelOptions == {"llama2", "mistral"}
\* The module's MODEL_NAME (emp_db.py:19, empp_share.py:14).
MODEL_NAME == "llama2"

\* No 'pdf_text' key in st.session_state.
Absent == "(absent)"

\* EmployeeAnalyzer.extract_text_from_pdf of emp_db.py (emp_db.py:25-35): the
\* text of the pages, "" when reading raises.
DbExtract(file) == IF file = "bad" THEN "" ELSE PagesText(file)

\* EmployeeAnalyzer.query_ollama of emp_db.py (emp_db.py:37-47): the request
\* it posts for a prompt built on a text. MODEL_NAME is the module's: main's
\* assignment of emp_db.py:112 binds a local of main.
DbRequest(txt) == [model |-> MODEL_NAME, text |-> txt]

\* Column 1 of main (emp_db.py:138-153): the session's text after the upload
\* was handled.
DbStored(file, stored) ==
    IF file # NoFile /\ DbExtract(file) # "" THEN DbExtract(file) ELSE stored

\* A run of main in which no button is clicked: the file and the model are
\* as the widgets hold them (emp_db.py:97-153).
DbRun(file, model) ==
    /\ uploaded_file' = file
    /\ selected_model' = model
    /\ session_pdf_text' = DbStored(file, session_pdf_text)
    /\ db_requests' = <<>>
    /\ UNCHANGED pc_db

\* The user puts a file into the uploader, or removes it.
DbUpload ==
    /\ UNCHANGED not_db
    /\ pc_db = "page"
    /\ \E file \in Uploads \ {uploaded_file} : DbRun(file, selected_model)

\* The user selects a model (emp_db.py:110-112).
DbSelectModel ==
    /\ UNCHANGED not_db
    /\ pc_db = "page"
    /\ \E model \in EmpModelOptions \ {selected_model} : DbRun(uploaded_file, model)

\* The user clicks "Show All Employees" (emp_db.py:156-159): the button is
\* there when the text of the file was extracted.
DbShowAllEmployees ==
    /\ UNCHANGED not_db
    /\ pc_db = "page"
    /\ uploaded_file # NoFile
    /\ DbExtract(uploaded_file) # ""
    /\ session_pdf_text' = DbStored(uploaded_file, session_pdf_text)
    /\ db_requests' = <<DbRequest(DbExtract(uploaded_file))>>
    /\ UNCHANGED <<uploaded_file, selected_model, pc_db>>

\* The user clicks "Search Employee" (emp_db.py:164-183): the button is there
\* when the session holds a text; a search without a name posts nothing.
DbSearchEmployee ==
    /\ UNCHANGED not_db
    /\ pc_db = "page"
    /\ DbStored(uploaded_file, session_pdf_text) # Absent
    /\ session_pdf_text' = DbStored(uploaded_file, session_pdf_text)
    /\ \E employee_name \in {"", "n"} :
          db_requests' = IF employee_name # ""
                         THEN <<DbRequest(DbStored(uploaded_file, session_pdf_text))>>
                         ELSE <<>>
    /\ UNCHANGED <<uploaded_file, selected_model, pc_db>>

\* EmployeeAnalyzer.extract_text_from_pdf of empp_share.py (empp_share.py:
\* 20-32): "" for no file, the message of the exception when reading raises.
ShareExtract(file) ==
    IF file = NoFile THEN ""
    ELSE IF file = "bad" THEN "Error reading PDF" ELSE PagesText(file)

\* "Error" in extracted_text (empp_share.py:149), on the texts of the model.
HasError(txt) == txt = "Error reading PDF"

\* EmployeeAnalyzer.query_ollama of empp_share.py (empp_share.py:47-56): the
\* request it posts.
ShareRequest(txt, model) ==
    [model |-> IF model # "" THEN model ELSE MODEL_NAME, text |-> txt]

\* What query_ollama returns (empp_share.py:58-64), by its kind.
QueryResults == {"response", "Connection error"}

\* The user puts a file into the upload component, or removes it
\* (empp_share.py:238-242): no handler runs.
ShareChooseFile ==
    /\ UNCHANGED not_share
    /\ pc_share = "idle"
    /\ \E file \in Uploads \ {pdf_upload} : pdf_upload' = file
    /\ share_requests' = <<>>
    /\ UNCHANGED <<model_dropdown, global_extracted_text, process_status,
                   share_result, pc_share>>

\* The user selects a model in the dropdown (empp_share.py:214-219).
ShareChooseModel ==
    /\ UNCHANGED not_share
    /\ pc_share = "idle"
    /\ \E model \in EmpModelOptions \ {model_dropdown} : model_dropdown' = model
    /\ share_requests' = <<>>
    /\ UNCHANGED <<pdf_upload, global_extracted_text, process_status,
                   share_result, pc_share>>

\* process_pdf (empp_share.py:140-153), called with the file of the upload
\* component.
process_pdf ==
    /\ UNCHANGED not_share
    /\ pc_share = "idle"
    /\ IF pdf_upload = NoFile
       THEN /\ process_status' = "Please upload a PDF file."
            /\ UNCHANGED global_extracted_text
       ELSE /\ global_extracted_text' = ShareExtract(pdf_upload)
            /\ process_status' = IF HasError(ShareExtract(pdf_upload))
                                 THEN ShareExtract(pdf_upload)
                                 ELSE "PDF processed successfully!"
    /\ share_requests' = <<>>
    /\ UNCHANGED <<pdf_upload, model_dropdown, share_result, pc_share>>

\* search_employee (empp_share.py:155-163) and extract_employee_info
\* (empp_share.py:66-102), called with the name typed and the model of the
\* dropdown.
search_employee ==
    /\ UNCHANGED not_share
    /\ pc_share = "idle"
    /\ \E employee_name \in {"", "n"} :
          IF global_extracted_text = ""
          THEN /\ share_result' = "Please upload and process a PDF file first."
               /\ share_requests' = <<>>
          ELSE IF employee_name = ""
          THEN /\ share_result' = "Please enter an employee name to search."
               /\ share_requests' = <<>>
          ELSE /\ share_requests' = <<ShareRequest(global_extracted_text, model_dropdown)>>
               /\ share_result' \in QueryResults
    /\ UNCHANGED <<pdf_upload, model_dropdown, global_extracted_text,
                   process_status, pc_share>>

\* get_all_employees (empp_share.py:165-173) and search_all_employees
\* (empp_share.py:104-132).
get_all_employees ==
    /\ UNCHANGED not_share
    /\ pc_share = "idle"
    /\ IF global_extracted_text = ""
       THEN /\ share_result' = "Please upload and process a PDF file first."
            /\ share_requests' = <<>>
       ELSE /\ share_requests' = <<ShareRequest(global_extracted_text, model_dropdown)>>
            /\ share_result' \in QueryResults
    /\ UNCHANGED <<pdf_upload, model_dropdown, global_extracted_text,
                   process_status, pc_share>>

-----------------------------------------------------------------------------
\* main.py: ResumeAnalyzer.analyze_resume after the prompt is built
\* (main.py:157-182) and the two results it falls back to (main.py:184-208).

\* Longest reply of the model, in tokens.
MaxReplyLen == 4
\* The tokens of a reply: the two braces, what stands between the braces of
\* a JSON object ("m": the member "overall_rating": 8 alone, "M": members for
\* all the keys the prompt asks for), and any other text.
ReplyTokens == {"{", "}", "m", "M", "t"}
Replies == SeqsUpTo(ReplyTokens, MaxReplyLen)

\* The characters of the reply kept in the fallback's summary (main.py:194).
SummaryChars == 200

\* The positions of a token in a text.
Positions(s, tok) == {k \in 1..Len(s) : s[k] = tok}
Lowest(S) == CHOOSE k \in S : \A j \in S : k <= j
Highest(S) == CHOOSE k \in S : \A j \in S : k >= j

\* re.search(r'\{.*\}', response_text, re.DOTALL) (main.py:172): a match
\* exists when a "}" follows the first "{"; being greedy, it runs from the
\* first "{" to the last "}".
HasJsonMatch(s) ==
    /\ Positions(s, "{") # {}
    /\ \E k \in Positions(s, "}") : k > Lowest(Positions(s, "{"))
json_match(s) == SubSeq(s, Lowest(Positions(s, "{")), Highest(Positions(s, "}")))

\* The texts json.loads accepts (main.py:175), among those json_match gives:
\* the empty object and the objects of one member or of all.
JsonLoads(s) == s \in {<<"{", "}">>, <<"{", "m", "}">>, <<"{", "M", "}">>}

\* response_text[:n]
Take(s, n) == SubSeq(s, 1, IF Len(s) < n THEN Len(s) ELSE n)

\* _parse_fallback_response (main.py:184-195).
parse_fallback_response(s) ==
    [overall_rating |-> 7,
     rating_explanation |-> "Analysis completed with basic evaluation",
     strengths |-> <<"Professional experience shown", "Educational background included",
                     "Contact information provided">>,
     areas_for_improvement |-> <<"Add more quantified achievements",
                                 "Include relevant keywords",
                                 "Improve formatting consistency", "Add skills section",
                                 "Enhance summary section">>,
     specific_suggestions |-> <<"Use bullet points for achievements",
                                "Add metrics to demonstrate impact",
                                "Include industry-specific keywords">>,
     keywords_missing |-> <<"Industry-specific terms", "Technical skills", "Soft skills">>,
     format_feedback |-> "Consider improving overall structure and visual appeal",
     summary |-> Take(s, SummaryChars) \o <<"...">>]
\* _get_default_response (main.py:197-208).
get_default_response ==
    [overall_rating |-> 6,
     rating_explanation |-> "Unable to complete full analysis",
     strengths |-> <<"Resume uploaded successfully">>,
     areas_for_improvement |-> <<"Please try uploading again for detailed analysis">>,
     specific_suggestions |-> <<"Ensure PDF is readable and well-formatted">>,
     keywords_missing |-> <<"Analysis pending">>,
     format_feedback |-> "Analysis could not be completed",
     summary |-> <<"Please try uploading your resume again">>]
\* The dict json.loads returns (main.py:175) for the texts it accepts: it has
\* the keys the object has.
Loaded(s) ==
    IF s = <<"{", "M", "}">>
    THEN [overall_rating |-> 8, rating_explanation |-> "r", strengths |-> <<"s">>,
          areas_for_improvement |-> <<"a">>, specific_suggestions |-> <<"g">>,
          keywords_missing |-> <<"k">>, format_feedback |-> "f", summary |-> <<"y">>]
    ELSE IF s = <<"{", "m", "}">> THEN [overall_rating |-> 8]
    ELSE <<>>

\* client.chat raises (main.py:158, 180-182).
ResumeChatRaises ==
    /\ UNCHANGED not_resume
    /\ pc_resume = "call"
    /\ resume_analysis' = get_default_response
    /\ pc_resume' = "done"
    /\ UNCHANGED response_text

\* client.chat returns the reply of the model (main.py:158-169).
ResumeChatReplies ==
    /\ UNCHANGED not_resume
    /\ pc_resume = "call"
    /\ \E reply \in Replies : response_text' = Str(reply)
    /\ pc_resume' = "reply"
    /\ UNCHANGED resume_analysis

\* The reply is searched for a JSON object and loaded (main.py:172-182): when
\* json.loads raises, the handler of main.py:180 answers.
ParseReply ==
    /\ UNCHANGED not_resume
    /\ pc_resume = "reply"
    /\ resume_analysis' =
          IF HasJsonMatch(response_text.str)
          THEN IF JsonLoads(json_match(response_text.str))
               THEN Loaded(json_match(response_text.str))
               ELSE get_default_response
          ELSE parse_fallback_response(response_text.str)
    /\ pc_resume' = "done"
    /\ UNCHANGED response_text

-----------------------------------------------------------------------------
\* The prompts of a chunked analyze_with_ollama_batch by their characters
\* (app.py:55-66, 110-143). A text is held as a sequence of runs, each the
\* characters [from, to) of a named piece: the document, a literal of the
\* code, the answer to a chunk.

Run(piece, from, to) == [piece |-> piece, from |-> from, to |-> to]
\* A whole piece of len characters.
Whole(piece, len) == IF len > 0 THEN <<Run(piece, 0, len)>> ELSE <<>>

\* len(t)
RECURSIVE TextLen(_)
TextLen(t) ==
    IF t = <<>> THEN 0 ELSE (t[1].to - t[1].from) + TextLen(Tail(t))

\* t[:n]
RECURSIVE Cut(_, _)
Cut(t, n) ==
    IF t = <<>> \/ n <= 0 THEN <<>>
    ELSE IF t[1].to - t[1].from <= n
         THEN <<t[1]>> \o Cut(Tail(t), n - (t[1].to - t[1].from))
         ELSE <<Run(t[1].piece, t[1].from, t[1].from + n)>>

\* {text[:3000]} (app.py:64).
PromptTextChars == 3000
\* {combined[:2000]} (app.py:133).
CombinedChars == 2000
\* The characters of the prompt before the text and after it (app.py:55-63
\* and 64-66), and those of the summary prompt (app.py:131-132 and 133-140).
PromptHeadChars == 305
PromptTailChars == 51
SummaryHeadChars == 67
SummaryTailChars == 147
\* len(f"**Section {i+1}:**\n") for a one-digit i+1 (app.py:121).
SectionHeadChars == 15

\* The lengths of the words of a document: all its words are of one length.
WordLens == {1, 4, 5}
\* The documents analyze_with_ollama_batch splits: after the extraction
\* (app.py:30-33) their words are separated by single spaces.
CharDocs ==
    {[words |-> n, word_len |-> w] :
        n \in {m \in DocWordCounts : m > BatchThreshold}, w \in WordLens}

\* The document's characters that ' '.join(words[from:to]) is (app.py:44).
ChunkChars(doc, span) ==
    IF span.to > span.from
    THEN <<Run("text", span.from * (doc.word_len + 1),
               span.to * (doc.word_len + 1) - 1)>>
    ELSE <<>>

\* The prompt analyze_with_ollama_streaming builds on a text (app.py:55-66).
Prompt(t) ==
    Whole("prompt head", PromptHeadChars) \o Cut(t, PromptTextChars)
        \o Whole("prompt tail", PromptTailChars)

\* The lengths of the answers to a chunk: short ones, and those with which one
\* section ends at the cut of the summary prompt, or one character after it.
AnswerLens == {1, CombinedChars - SectionHeadChars - 1, CombinedChars - SectionHeadChars}

\* f"**Section {i+1}:**\n{analysis}\n" (app.py:121), for the answer to chunk
\* i + 1 of len characters.
CharSection(n, len) ==
    Whole("section head " \o ToString(n), SectionHeadChars)
        \o Whole("answer " \o ToString(n), len) \o Whole("\n", 1)

\* "\n".join(analyses) (app.py:128).
RECURSIVE CharJoin(_)
CharJoin(parts) ==
    IF parts = <<>> THEN <<>>
    ELSE IF Len(parts) = 1 THEN parts[1]
    ELSE parts[1] \o Whole("\n", 1) \o CharJoin(Tail(parts))

\* The part of combined the summary prompt holds (app.py:133).
\* A variant without the cut (C21 is tried against it).
CombinedPart_whole(t) == t
CombinedPart(t) == Cut(t, CombinedChars)

\* summary_prompt (app.py:131-140).
SummaryPrompt(analyses_) ==
    Whole("summary head", SummaryHeadChars) \o CombinedPart(CharJoin(analyses_))
        \o Whole("summary tail", SummaryTailChars)

\* One turn of the loop (app.py:116-121): the prompt of the chunk is sent and
\* the answer, when there is one, joins analyses. After the last chunk the
\* analysis goes on to the summary (app.py:127) or ends (app.py:145).
CharChunkCall ==
    /\ UNCHANGED not_char
    /\ pc_char = "loop"
    /\ char_prompts' = Append(char_prompts,
           Prompt(ChunkChars(char_text,
                             ChunkSpans(char_text.words, BatchChunkWords)[char_i + 1])))
    /\ \E answered \in BOOLEAN, len \in AnswerLens :
          /\ ~answered => len = 1
          /\ char_analyses' = IF answered
                              THEN Append(char_analyses, CharSection(char_i + 1, len))
                              ELSE char_analyses
          /\ pc_char' = IF char_i + 1 < Len(ChunkSpans(char_text.words, BatchChunkWords))
                        THEN "loop"
                        ELSE IF char_analyses' # <<>> THEN "final" ELSE "done"
    /\ char_i' = char_i + 1
    /\ UNCHANGED char_text

\* The summary call (app.py:128-142): its prompt is built on the summary
\* prompt as on any text.
CharFinalCall ==
    /\ UNCHANGED not_char
    /\ pc_char = "final"
    /\ char_prompts' = Append(char_prompts, Prompt(SummaryPrompt(char_analyses)))
    /\ pc_char' = "done"
    /\ UNCHANGED <<char_text, char_i, char_analyses>>

-----------------------------------------------------------------------------
\* gaming_dice.py: dice_game (gaming_dice.py:8-62).

\* Most rolls of one game.
MaxRolls == 3
\* randint(1, 6) (gaming_dice.py:43).
DiceLow == 1
DiceHigh == 6

\* The button 'Roll Dice' (gaming_dice.py:30-62).
\* A variant that keeps the best single roll as the high score (C30 is tried
\* against it).
RollDice_bestRoll ==
    /\ UNCHANGED not_dice
    /\ pc_dice = "loop"
    /\ Len(rolls) < MaxRolls
    /\ \E dice_value \in DiceLow..DiceHigh :
          /\ score' = score + dice_value
          /\ rolls' = Append(rolls, dice_value)
          /\ high_score' = IF dice_value > high_score THEN dice_value ELSE high_score
    /\ last_action' = "Roll Dice"
    /\ UNCHANGED pc_dice

RollDice ==
    /\ UNCHANGED not_dice
    /\ pc_dice = "loop"
    /\ Len(rolls) < MaxRolls
    /\ \E dice_value \in DiceLow..DiceHigh :
          /\ score' = score + dice_value
          /\ rolls' = Append(rolls, dice_value)
          /\ high_score' = IF score + dice_value > high_score
                           THEN score + dice_value ELSE high_score
    /\ last_action' = "Roll Dice"
    /\ UNCHANGED pc_dice

\* The button 'View Stats' (gaming_dice.py:22-28): the loop goes on.
ViewStats ==
    /\ UNCHANGED not_dice
    /\ pc_dice = "loop"
    /\ last_action' = "View Stats"
    /\ UNCHANGED <<score, high_score, rolls, pc_dice>>

\* The button 'Exit Game' (gaming_dice.py:18-20): the loop is left.
ExitGame ==
    /\ UNCHANGED not_dice
    /\ pc_dice = "loop"
    /\ last_action' = "Exit Game"
    /\ pc_dice' = "exited"
    /\ UNCHANGED <<score, high_score, rolls>>

-----------------------------------------------------------------------------
\* The programs. Each behaviour is a run of one of them; the variables of the
\* others stay as they are when the program does not run.

ChunkOff ==
    /\ text = <<>>
    /\ max_words = 1
    /\ chunks_out = <<>>
    /\ pc_chunk = "off"

AppFresh ==
    /\ frame = "none"
    /\ chunks = <<>>
    /\ i = 0
    /\ analyses = <<>>
    /\ combined = <<>>
    /\ analysis = None
    /\ pc_call = "idle"
    /\ lines_read = 0
    /\ full_response = <<>>
    /\ requests = <<>>
    /\ st_log = <<>>
    /\ chunk_results = <<>>
    /\ done_received = FALSE
    /\ malformed_skipped = FALSE
    /\ outcomes = <<>>
    /\ is_connected = FALSE
    /\ available_models = <<>>
    /\ model_name = ""

AppOff ==
    /\ extracted_text = [words |-> 0]
    /\ use_batch_processing = TRUE
    /\ max_chunk_words = BatchChunkWords
    /\ pc_app = "off"
    /\ AppFresh

ChatFresh ==
    /\ message = <<>>
    /\ temperature = 7
    /\ max_tokens = 1000
    /\ history = <<>>
    /\ chat_response = <<>>
    /\ chat_lines_read = 0
    /\ chat_requests = <<>>
    /\ snapshots = <<>>
    /\ chat_done_received = FALSE

ChatOff ==
    /\ pc_chat = "off"
    /\ chat_available_models = <<>>
    /\ chat_model = ""
    /\ ChatFresh

SampleOff ==
    /\ sample_is_connected = FALSE
    /\ sample_available_models = <<>>
    /\ ai_model = ""
    /\ sample_chat_history = <<>>
    /\ sample_requests = <<>>
    /\ pc_sample = "off"

DbOff ==
    /\ uploaded_file = NoFile
    /\ selected_model = "llama2"
    /\ session_pdf_text = Absent
    /\ db_requests = <<>>
    /\ pc_db = "off"

ShareFresh ==
    /\ pdf_upload = NoFile
    /\ model_dropdown = "llama2"
    /\ global_extracted_text = ""
    /\ share_requests = <<>>
    /\ process_status = ""
    /\ share_result = ""

ShareOff ==
    /\ pc_share = "off"
    /\ ShareFresh

ResumeOff ==
    /\ response_text = None
    /\ resume_analysis = None
    /\ pc_resume = "off"

CharOff ==
    /\ char_text = [words |-> 0, word_len |-> 1]
    /\ char_i = 0
    /\ char_analyses = <<>>
    /\ char_prompts = <<>>
    /\ pc_char = "off"

DiceOff ==
    /\ score = 0
    /\ high_score = 0
    /\ rolls = <<>>
    /\ last_action = ""
    /\ pc_dice = "off"

MoreOff == DbOff /\ ShareOff /\ ResumeOff /\ CharOff /\ DiceOff

\* chunk_text called once, on a text and a max_words >= 1.
InitChunk ==
    /\ text \in SeqsUpTo(Chars, MaxTextLen)
    /\ max_words \in 1..MaxWordsArg
    /\ chunks_out = <<>>
    /\ pc_chunk = "call"
    /\ AppOff
    /\ ChatOff
    /\ SampleOff
    /\ MoreOff

CallChunkText ==
    /\ pc_chunk = "call"
    /\ chunks_out' = chunk_text(text, max_words)
    /\ pc_chunk' = "done"
    /\ UNCHANGED <<text, max_words, not_chunk>>

NextChunk == CallChunkText

SpecChunk == InitChunk /\ [][NextChunk]_vars

\* app.py's main, run once on an uploaded document whose text was extracted,
\* with the settings of the sidebar.
InitApp ==
    /\ extracted_text \in Docs
    /\ use_batch_processing \in BOOLEAN
    /\ max_chunk_words \in SliderValues
    /\ pc_app = "start"
    /\ AppFresh
    /\ ChunkOff
    /\ ChatOff
    /\ SampleOff
    /\ MoreOff

NextApp ==
    \/ CheckConnection
    \/ ShowExtracted
    \/ ClickAnalyze
    \/ PostRequest
    \/ PostTimeout
    \/ PostException
    \/ PostResponse
    \/ ReadLine
    \/ IterException
    \/ IterEnd
    \/ Present

SpecApp == InitApp /\ [][NextApp]_vars

\* agent.py's chat, from an empty history, with the listing fetched when the
\* client was made (agent.py:8-11, 88).
InitChat ==
    /\ pc_chat = "idle"
    /\ chat_available_models \in ChatListings
    /\ chat_model = DropdownDefault(chat_available_models)
    /\ ChatFresh
    /\ ChunkOff
    /\ AppOff
    /\ SampleOff
    /\ MoreOff

NextChat ==
    \/ RefreshModels
    \/ SendMessage
    \/ StatusAnswer
    \/ ChatPostException
    \/ ChatResponse
    \/ ChatReadLine
    \/ ChatIterException
    \/ ChatIterEnd

SpecChat == InitChat /\ [][NextChat]_vars

\* sample.py's page, from an empty chat history.
InitSample ==
    /\ sample_is_connected = FALSE
    /\ sample_available_models = <<>>
    /\ ai_model = ""
    /\ sample_chat_history = <<>>
    /\ sample_requests = <<>>
    /\ pc_sample = "start"
    /\ ChunkOff
    /\ AppOff
    /\ ChatOff
    /\ MoreOff

NextSample ==
    \/ SampleConnect
    \/ AskAssistant
    \/ AssistantAnswers
    \/ SampleRerun

SpecSample == InitSample /\ [][NextSample]_vars

\* emp_db.py's page as a session opens it: no file, the first model of the
\* selectbox (emp_db.py:110-111).
InitDb ==
    /\ uploaded_file = NoFile
    /\ selected_model = "llama2"
    /\ session_pdf_text = Absent
    /\ db_requests = <<>>
    /\ pc_db = "page"
    /\ ChunkOff
    /\ AppOff
    /\ ChatOff
    /\ SampleOff
    /\ ShareOff
    /\ ResumeOff
    /\ CharOff
    /\ DiceOff

\* empp_share.py's page after the module is loaded (empp_share.py:138, 216).
InitShare ==
    /\ pc_share = "idle"
    /\ ShareFresh
    /\ ChunkOff
    /\ AppOff
    /\ ChatOff
    /\ SampleOff
    /\ DbOff
    /\ ResumeOff
    /\ CharOff
    /\ DiceOff

InitEmp == InitDb \/ InitShare

NextEmp ==
    \/ DbUpload
    \/ DbSelectModel
    \/ DbShowAllEmployees
    \/ DbSearchEmployee
    \/ ShareChooseFile
    \/ ShareChooseModel
    \/ process_pdf
    \/ search_employee
    \/ get_all_employees

SpecEmp == InitEmp /\ [][NextEmp]_vars

\* analyze_resume called once.
InitResume ==
    /\ response_text = None
    /\ resume_analysis = None
    /\ pc_resume = "call"
    /\ ChunkOff
    /\ AppOff
    /\ ChatOff
    /\ SampleOff
    /\ DbOff
    /\ ShareOff
    /\ CharOff
    /\ DiceOff

NextResume ==
    \/ ResumeChatRaises
    \/ ResumeChatReplies
    \/ ParseReply

SpecResume == InitResume /\ [][NextResume]_vars

\* analyze_with_ollama_batch called on a text it splits (app.py:110-112).
InitChar ==
    /\ char_text \in CharDocs
    /\ char_i = 0
    /\ char_analyses = <<>>
    /\ char_prompts = <<>>
    /\ pc_char = "loop"
    /\ ChunkOff
    /\ AppOff
    /\ ChatOff
    /\ SampleOff
    /\ DbOff
    /\ ShareOff
    /\ ResumeOff
    /\ DiceOff

NextChar ==
    \/ CharChunkCall
    \/ CharFinalCall

SpecChar == InitChar /\ [][NextChar]_vars

\* dice_game as it enters its loop (gaming_dice.py:12-15).
InitDice ==
    /\ score = 0
    /\ high_score = 0
    /\ rolls = <<>>
    /\ last_action = ""
    /\ pc_dice = "loop"
    /\ ChunkOff
    /\ AppOff
    /\ ChatOff
    /\ SampleOff
    /\ DbOff
    /\ ShareOff
    /\ ResumeOff
    /\ CharOff

NextDice ==
    \/ RollDice
    \/ ViewStats
    \/ ExitGame

SpecDice == InitDice /\ [][NextDice]_vars

\* The two programs that read a streamed response: app.py on the documents up
\* to the shortest one that analyze_with_ollama_batch splits, so that every
\* call site of analyze_with_ollama_streaming makes its call (main, the single
\* call of the batch analysis, a chunk's call and the consolidation call), or
\* the chat of agent.py.
InitStream ==
    \/ InitApp /\ extracted_text.words <= BatchThreshold + 1
    \/ InitChat

NextStream ==
    \/ CheckConnection
    \/ ShowExtracted
    \/ ClickAnalyze
    \/ PostRequest
    \/ PostTimeout
    \/ PostException
    \/ PostResponse
    \/ ReadLine
    \/ IterException
    \/ IterEnd
    \/ Present
    \/ RefreshModels
    \/ SendMessage
    \/ StatusAnswer
    \/ ChatPostException
    \/ ChatResponse
    \/ ChatReadLine
    \/ ChatIterException
    \/ ChatIterEnd

SpecStream == InitStream /\ [][NextStream]_vars

\* Any one of the programs.
Init ==
    \/ InitChunk \/ InitApp \/ InitChat \/ InitSample
    \/ InitDb \/ InitShare \/ InitResume \/ InitChar \/ InitDice

Next ==
    \/ CallChunkText
    \/ CheckConnection
    \/ ShowExtracted
    \/ ClickAnalyze
    \/ PostRequest
    \/ PostTimeout
    \/ PostException
    \/ PostResponse
    \/ ReadLine
    \/ IterException
    \/ IterEnd
    \/ Present
    \/ RefreshModels
    \/ SendMessage
    \/ StatusAnswer
    \/ ChatPostException
    \/ ChatResponse
    \/ ChatReadLine
    \/ ChatIterException
    \/ ChatIterEnd
    \/ SampleConnect
    \/ AskAssistant
    \/ AssistantAnswers
    \/ SampleRerun
    \/ DbUpload
    \/ DbSelectModel
    \/ DbShowAllEmployees
    \/ DbSearchEmployee
    \/ ShareChooseFile
    \/ ShareChooseModel
    \/ process_pdf
    \/ search_employee
    \/ get_all_employees
    \/ ResumeChatRaises
    \/ ResumeChatReplies
    \/ ParseReply
    \/ CharChunkCall
    \/ CharFinalCall
    \/ RollDice
    \/ ViewStats
    \/ ExitGame

Spec == Init /\ [][Next]_vars


-----------------------------------------------------------------------------
\* The words of every chunk returned, chunk after chunk.
ChunkWords == [k \in 1..Len(chunks_out) |-> split(chunks_out[k])]

\* C1 (chunk coverage): the words of all chunks chunk_text returned, in chunk
\* order, are exactly the words of the text (text.split()): none missing,
\* duplicated or reordered.
C1_ChunkCoverage ==
    pc_chunk = "done" => Flatten(ChunkWords) = split(text)

\* A call that returned several chunks, the last one shorter, of distinct words.
C1_Witness ==
    /\ pc_chunk = "done"
    /\ Len(chunks_out) = 2
    /\ max_words = 2
    /\ split(text) = <<<<"a">>, <<"b">>, <<"a">>>>

\* C2 (chunk size bound): every chunk but the last has exactly max_words
\* words, and the last has between 1 and max_words words.
C2_ChunkSizeBound ==
    pc_chunk = "done" =>
        \A k \in 1..Len(chunks_out) :
            /\ k < Len(chunks_out) => Len(ChunkWords[k]) = max_words
            /\ Len(ChunkWords[k]) \in 1..max_words

\* A call whose last chunk is shorter than max_words and whose first is full.
C2_Witness ==
    /\ pc_chunk = "done"
    /\ Len(chunks_out) = 2
    /\ max_words = 2
    /\ Len(ChunkWords[1]) = 2
    /\ Len(ChunkWords[2]) = 1

-----------------------------------------------------------------------------
\* Properties of app.py's analysis.

\* The analysis call of main has returned.
AnalysisOver == pc_app \in {"present", "done"}
WordCount == extracted_text.words
\* The batch analysis split the document (app.py:110-111).
Chunked == chunks # <<>>
CeilDiv(a, b) == (a + b - 1) \div b
SiteRequests(site) == {r \in 1..Len(requests) : requests[r].site = site}
AllChunksSucceeded == \A k \in 1..Len(chunk_results) : Truthy(chunk_results[k])
SomeChunkSucceeded == \E k \in 1..Len(chunk_results) : Truthy(chunk_results[k])
SomeChunkFailed == \E k \in 1..Len(chunk_results) : ~Truthy(chunk_results[k])

C4_RoutingBoundary ==
    (AnalysisOver /\ use_batch_processing) =>
        /\ WordCount <= MainThreshold => ~Chunked
        /\ WordCount > MainThreshold => Chunked

\* The sections a chunked analysis owes: one per successful chunk result, in
\* chunk order, labelled with the chunk's 1-based index.
RECURSIVE SectionsOf(_, _)
SectionsOf(results, first) ==
    IF results = <<>> THEN <<>>
    ELSE (IF Truthy(Head(results)) THEN <<Section(first, Head(results))>> ELSE <<>>)
         \o SectionsOf(Tail(results), first + 1)

\* What main makes of the value returned (app.py:288-310).
AnalysisStatus == IF Truthy(analysis) THEN "Completed" ELSE "Failed"

\* C5 (partial failure aggregation): when some chunk calls fail and some
\* succeed, the aggregate holds exactly the successful chunks' sections, under
\* their original indices and in chunk order, and the result returned carries
\* a PartialFailure status.
C5_PartialFailure ==
    (AnalysisOver /\ Chunked /\ SomeChunkFailed /\ SomeChunkSucceeded) =>
        /\ analyses = SectionsOf(chunk_results, 1)
        /\ combined = join(<<"\n">>, analyses)
        /\ AnalysisStatus = "PartialFailure"

\* The part of C5 about the aggregate alone.
C5_AggregateOnly ==
    (AnalysisOver /\ Chunked /\ SomeChunkFailed /\ SomeChunkSucceeded) =>
        /\ analyses = SectionsOf(chunk_results, 1)
        /\ combined = join(<<"\n">>, analyses)

\* C6 (total failure short-circuit): when every chunk call fails, no
\* consolidation call is issued, and the result is a failure that main does
\* not present as a completed analysis.
C6_TotalFailure ==
    (AnalysisOver /\ Chunked /\ ~SomeChunkSucceeded) =>
        /\ SiteRequests("batch_final") = {}
        /\ AnalysisStatus = "Failed"
        /\ pc_app = "done" => st_log[Len(st_log)] # "success: Analysis completed"

\* The part of C6 about the consolidation call alone.
C6_NoConsolidationOnly ==
    (AnalysisOver /\ Chunked /\ ~SomeChunkSucceeded) =>
        SiteRequests("batch_final") = {}

\* The chunk index a section of the aggregate is labelled with (0: none).
SectionIndex(section) ==
    IF \E n \in 1..Len(chunks) : section[1] = Section(n, None)[1]
    THEN CHOOSE n \in 1..Len(chunks) : section[1] = Section(n, None)[1]
    ELSE 0

\* C9 (section ordering): the sections of the aggregate are labelled with
\* chunk indices and appear in increasing index order, whatever the outcomes
\* of the chunk calls; the aggregate report joins them in that order.
C9_SectionOrdering ==
    /\ \A k \in 1..Len(analyses) : SectionIndex(analyses[k]) \in 1..Len(chunks)
    /\ \A j, k \in 1..Len(analyses) :
          j < k => SectionIndex(analyses[j]) < SectionIndex(analyses[k])
    /\ pc_app = "analyzing" /\ frame = "batch_final" =>
          combined = join(<<"\n">>, analyses)

\* A chunked analysis whose second chunk failed: sections 1 and 3.
C9_Witness ==
    /\ AnalysisOver
    /\ Len(analyses) = 2
    /\ SectionIndex(analyses[1]) = 1
    /\ SectionIndex(analyses[2]) = 3

\* C10 (a chunk failure does not abort): in a chunked analysis every chunk is
\* sent to the inference client exactly once, whatever the outcome of the
\* calls for the chunks before it.
C10_EveryChunkCalledOnce ==
    (AnalysisOver /\ Chunked) =>
        /\ Len(chunk_results) = Len(chunks)
        /\ \A k \in 1..Len(chunks) :
              Cardinality({r \in SiteRequests("batch_chunk") : requests[r].section = k}) = 1

\* A chunked analysis whose first two chunk calls failed (a timeout, then a
\* non-success status) and whose third succeeded.
C10_Witness ==
    /\ AnalysisOver
    /\ Len(chunks) = 3
    /\ Len(chunk_results) = 3
    /\ ~Truthy(chunk_results[1])
    /\ ~Truthy(chunk_results[2])
    /\ Truthy(chunk_results[3])
    /\ \E a, b \in 1..Len(st_log) :
          /\ a < b
          /\ st_log[a] = "error: Request timed out even with streaming."
          /\ st_log[b] = "error: Ollama API error"

-----------------------------------------------------------------------------
\* Properties of the streaming calls.

IsPrefix(a, b) == Len(a) <= Len(b) /\ SubSeq(b, 1, Len(a)) = a

\* C7 (streaming monotonicity): every snapshot stream_chat yields after the
\* first extends the snapshot before it, whatever the fragments and wherever
\* the stream fails.
C7_StreamingMonotonicity ==
    \A k \in 1..(Len(snapshots) - 1) : IsPrefix(snapshots[k], snapshots[k + 1])

\* The part of C7 that holds: while no error is yielded, snapshots only grow.
C7_GrowthWithoutError ==
    \A k \in 1..(Len(snapshots) - 1) :
        snapshots[k + 1] \notin {<<"(x) Connection error">>, <<"(x) Unexpected error">>}
            => IsPrefix(snapshots[k], snapshots[k + 1])

\* C8 (streaming termination): once a call has read a fragment carrying the
\* done marker, it reads no further line, adds no text and yields no further
\* snapshot, in stream_chat and in analyze_with_ollama_streaming alike.
C8_StreamingTermination ==
    [][/\ (chat_done_received /\ chat_done_received') =>
              /\ snapshots' = snapshots
              /\ chat_lines_read' = chat_lines_read
              /\ pc_chat' # "iter"
       /\ (done_received /\ done_received') =>
              /\ full_response' = full_response
              /\ lines_read' = lines_read
              /\ pc_call' # "iter"]_vars

\* A stream_chat call that a done fragment ended on its first line, with the
\* snapshot that line carried, and before the stream could deliver more.
C8_Witness ==
    /\ chat_done_received
    /\ pc_chat = "idle"
    /\ chat_lines_read = 1
    /\ chat_lines_read < MaxLines
    /\ snapshots = <<<<"x">>>>
-----------------------------------------------------------------------------
\* Properties of the results of app.py's analysis.

\* The calls of analyze_with_ollama_streaming that have returned, by call site.
SiteOutcomes(site) == {k \in 1..Len(outcomes) : outcomes[k].site = site}
\* The consolidation call was made and returned no result.
FinalCallFailed == \E k \in SiteOutcomes("batch_final") : ~Truthy(outcomes[k].value)
\* main showed the analysis as completed.
ShownCompleted == \E k \in 1..Len(st_log) : st_log[k] = "success: Analysis completed"

C12_EmptyDocument ==
    WordCount = 0 =>
        /\ requests = <<>>
        /\ analysis = None
        /\ ~ShownCompleted
        /\ pc_app \in {"off", "start", "extracted", "stopped"}
        /\ pc_app = "stopped" =>
              /\ st_log # <<>>
              /\ st_log[Len(st_log)] \in
                    {"error: Cannot connect to Ollama.",
                     "error: No models found. Please pull a model",
                     "error: Could not extract text from PDF"}

\* A run with a connection and a model that stopped on an empty document.
C12_Witness ==
    /\ WordCount = 0
    /\ model_name # ""
    /\ pc_app = "stopped"
    /\ st_log = <<"error: Could not extract text from PDF">>

\* The way a call failed, of the ways the caller is to tell apart: the backend
\* could not be reached, or it was reached and gave nothing usable.
FailureClass(kind) ==
    IF kind \in {"timeout", "exception"} THEN "unreachable"
    ELSE IF kind \in {"status", "empty"} THEN "no_content"
    ELSE "none"

\* C14 (failure kinds are distinguishable): two analysis calls that failed in
\* different ways (backend not reached, backend reached without usable
\* content) never return the same value, and the value a chunked analysis
\* returns after a partial failure is none that a call failing in one of those
\* ways returns.
C14_FailureKindsDistinguishable ==
    /\ \A j, k \in 1..Len(outcomes) :
          (/\ FailureClass(outcomes[j].kind) # "none"
           /\ FailureClass(outcomes[k].kind) # "none"
           /\ FailureClass(outcomes[j].kind) # FailureClass(outcomes[k].kind))
              => outcomes[j].value # outcomes[k].value
    /\ (AnalysisOver /\ Chunked /\ SomeChunkFailed /\ SomeChunkSucceeded) =>
          \A k \in 1..Len(outcomes) :
              FailureClass(outcomes[k].kind) # "none" => analysis # outcomes[k].value

\* The part of C14 that holds: a call the backend answered with an empty text
\* returns another value than a call that raised or timed out.
C14_EmptyAnswerDistinct ==
    \A j, k \in 1..Len(outcomes) :
        (outcomes[j].kind = "empty" /\ FailureClass(outcomes[k].kind) = "unreachable")
            => outcomes[j].value # outcomes[k].value

\* A failure happened in the analysis: a call ended otherwise than with a
\* text, or a line that is no JSON was skipped.
FailureOccurred ==
    \/ malformed_skipped
    \/ \E k \in 1..Len(outcomes) : outcomes[k].kind # "ok"
\* The value tells the caller of a failure: it is None, or one of the
\* messages the code returns in the place of an analysis.
ReportsFailure(v) ==
    \/ v.none
    \/ v.str \in {<<"Failed to analyze any sections">>, <<"No response generated">>}

\* C16 (no error is silently dropped): when a failure happened during an
\* analysis (a chunk call or the consolidation call failed, a response came
\* with a non-success status, a fragment was no JSON), the value returned to
\* main tells of it.
C16_NoErrorDropped ==
    (AnalysisOver /\ FailureOccurred) => ReportsFailure(analysis)

\* The part of C16 that holds: an analysis that is not chunked and whose call
\* returned no result returns none.
C16_SingleShotFailureReturned ==
    (AnalysisOver /\ ~Chunked /\ \E k \in 1..Len(outcomes) : outcomes[k].value = None)
        => analysis = None

\* C18 (the chunk size comes from the caller): a chunked analysis splits the
\* document into chunks of the 'Max words per chunk' setting: every chunk but
\* the last has that many words and the last at most that many.
C18_ChunkSizeFromCaller ==
    Chunked =>
        /\ Len(chunks) = CeilDiv(WordCount, max_chunk_words)
        /\ \A k \in 1..Len(chunks) :
              /\ chunks[k].to - chunks[k].from <= max_chunk_words
              /\ k < Len(chunks) => chunks[k].to - chunks[k].from = max_chunk_words

\* The part of C18 that holds: the chunks have the size written in the code.
C18_ChunkSizeFixed ==
    Chunked =>
        /\ Len(chunks) = CeilDiv(WordCount, BatchChunkWords)
        /\ \A k \in 1..Len(chunks) :
              /\ chunks[k].to - chunks[k].from <= BatchChunkWords
              /\ k < Len(chunks) => chunks[k].to - chunks[k].from = BatchChunkWords
-----------------------------------------------------------------------------
\* Properties of the requests.

\* The elements of a sequence.
Range(seq) == {seq[k] : k \in 1..Len(seq)}

\* C13 (no model available): no inference request carries a model that is not
\* in the listing the program fetched, in particular none is issued when the
\* listing is empty, in app.py, in a call of agent.py's chat and on the
\* assistant page of sample.py; app.py stops on an empty listing.
C13_NoModelAvailable ==
    /\ \A r \in 1..Len(requests) : requests[r].model \in Range(available_models)
    /\ (pc_app \notin {"off", "start"} /\ available_models = <<>>) => pc_app = "stopped"
    /\ pc_chat \in {"await", "iter"} =>
          \A r \in 1..Len(chat_requests) :
              chat_requests[r].kind = "chat" =>
                  chat_requests[r].model \in Range(chat_available_models)
    /\ \A r \in 1..Len(sample_requests) :
          sample_requests[r].model \in Range(sample_available_models)

\* The part of C13 that holds: app.py and the chat of agent.py issue no
\* request without a listed model.
C13_AppAndChatOnly ==
    /\ \A r \in 1..Len(requests) : requests[r].model \in Range(available_models)
    /\ (pc_app \notin {"off", "start"} /\ available_models = <<>>) => pc_app = "stopped"
    /\ pc_chat \in {"await", "iter"} =>
          \A r \in 1..Len(chat_requests) :
              chat_requests[r].kind = "chat" =>
                  chat_requests[r].model \in Range(chat_available_models)

\* C19 (options pass-through): the chat request carries, in its options, the
\* temperature and the output-length cap chat_with_ollama was called with.
C19_OptionsPassThrough ==
    \A r \in 1..Len(chat_requests) :
        chat_requests[r].kind = "chat" =>
            /\ "temperature" \in DOMAIN chat_requests[r].options
            /\ chat_requests[r].options.temperature = temperature
            /\ "num_predict" \in DOMAIN chat_requests[r].options
            /\ chat_requests[r].options.num_predict = max_tokens

\* The part of C19 that holds: the temperature is passed through.
C19_TemperatureOnly ==
    \A r \in 1..Len(chat_requests) :
        chat_requests[r].kind = "chat" =>
            /\ "temperature" \in DOMAIN chat_requests[r].options
            /\ chat_requests[r].options.temperature = temperature

\* C15 (no state retained between requests): every request an analysis or a
\* search posts is built on the text of the document supplied with it, the
\* file the page holds when the request is made; a text an earlier request
\* produced is not used when that file is absent or could not be read.
C15_NoStateRetained ==
    /\ \A r \in 1..Len(db_requests) :
          /\ uploaded_file # NoFile
          /\ db_requests[r].text = DbExtract(uploaded_file)
    /\ \A r \in 1..Len(share_requests) :
          /\ pdf_upload # NoFile
          /\ share_requests[r].text = ShareExtract(pdf_upload)

\* The part of C15 that holds: a request is built on the text the program
\* keeps (the session's in emp_db.py, the module's in empp_share.py), and
\* "Show All Employees" of emp_db.py on the text of the file just read.
C15_UsesKeptText ==
    /\ \A r \in 1..Len(db_requests) : db_requests[r].text = session_pdf_text
    /\ \A r \in 1..Len(share_requests) :
          share_requests[r].text = global_extracted_text

\* C17 (model pass-through): the model of every request the employee
\* analyzers post is the model selected on the page when the request is made.
C17_ModelPassThrough ==
    /\ \A r \in 1..Len(db_requests) : db_requests[r].model = selected_model
    /\ \A r \in 1..Len(share_requests) : share_requests[r].model = model_dropdown

\* The part of C17 that holds: empp_share.py passes the model of the dropdown
\* through, and emp_db.py posts the module's MODEL_NAME whatever is selected.
C17_ShareOnly ==
    /\ \A r \in 1..Len(share_requests) : share_requests[r].model = model_dropdown
    /\ \A r \in 1..Len(db_requests) : db_requests[r].model = MODEL_NAME

\* The reply of the model cannot be parsed into the structured result: no
\* JSON object is found in it, or the text from the first "{" to the last "}"
\* is not valid JSON.
Unparseable(s) == ~HasJsonMatch(s) \/ ~JsonLoads(json_match(s))

\* C20 (JSON fallback chain): whenever the reply to analyze_resume cannot be
\* parsed, the result returned is the fallback that wraps the reply, its
\* summary made from the reply's text, not a result that discards the reply.
C20_JsonFallbackChain ==
    (pc_resume = "done" /\ response_text # None /\ Unparseable(response_text.str)) =>
        resume_analysis = parse_fallback_response(response_text.str)

\* The part of C20 that holds: a reply in which no JSON object is found is
\* wrapped by the fallback; a reply whose object does not load is answered by
\* the default result.
C20_FallbackWithoutMatch ==
    (pc_resume = "done" /\ response_text # None) =>
        /\ ~HasJsonMatch(response_text.str) =>
              resume_analysis = parse_fallback_response(response_text.str)
        /\ (HasJsonMatch(response_text.str) /\ ~JsonLoads(json_match(response_text.str))) =>
              resume_analysis = get_default_response

\* The aggregate report of the chunked analysis: "\n".join(analyses).
AggregateReport == CharJoin(char_analyses)
\* The pieces that are literals of the two prompts.
PromptLiterals == {"prompt head", "prompt tail", "summary head", "summary tail"}
NotLiteral(r) == r.piece \notin PromptLiterals
\* What the prompt of the consolidation call holds of the aggregate report.
EmbeddedAggregate == SelectSeq(char_prompts[Len(char_prompts)], NotLiteral)
ConsolidationSent == pc_char = "done" /\ char_analyses # <<>>

\* C21 (bounded consolidation input): what the prompt of the consolidation
\* call holds of the aggregate report is a prefix of the aggregate report, of
\* at most 2000 characters, whatever the number and the sizes of the sections.
C21_BoundedConsolidationInput ==
    ConsolidationSent =>
        /\ EmbeddedAggregate = Cut(AggregateReport, TextLen(EmbeddedAggregate))
        /\ TextLen(EmbeddedAggregate) <= CombinedChars

\* A consolidation call on several sections that together are longer than the
\* bound: its prompt holds the first 2000 characters of them.
C21_Witness ==
    /\ ConsolidationSent
    /\ Len(char_analyses) >= 2
    /\ TextLen(AggregateReport) > CombinedChars
    /\ TextLen(EmbeddedAggregate) = CombinedChars

\* The prompt p holds all of word k (0-based) of the document.
WordInPrompt(doc, k, p) ==
    \E r \in 1..Len(p) :
        /\ p[r].piece = "text"
        /\ p[r].from <= k * (doc.word_len + 1)
        /\ k * (doc.word_len + 1) + doc.word_len <= p[r].to
CharChunks == ChunkSpans(char_text.words, BatchChunkWords)
ChunkCallsOver == pc_char \in {"final", "done"}

\* C24 (whole document reaches the model): in a chunked analysis every word
\* of the document is in the text the prompt of some chunk's call holds.
C24_WholeDocumentReachesModel ==
    ChunkCallsOver =>
        \A k \in 0..(char_text.words - 1) :
            \E c \in 1..Len(CharChunks) : WordInPrompt(char_text, k, char_prompts[c])

\* The part of C24 that holds: the prompt of every chunk's call holds the
\* first 3000 characters of the chunk, and all of a chunk that is no longer.
C24_FirstCharsOfEveryChunk ==
    ChunkCallsOver =>
        \A c \in 1..Len(CharChunks) :
            SelectSeq(char_prompts[c], NotLiteral)
                = Cut(ChunkChars(char_text, CharChunks[c]), PromptTextChars)

\* A call of analyze_with_ollama_streaming is in flight: its request is posted
\* and it has not returned.
CallInFlight == pc_call \in {"await", "iter"}

\* C22 (strictly sequential calls): at most one inference call is in flight
\* at any time; every request but the one in flight belongs to a call that
\* has returned or failed, so the call for chunk i+1 is issued only after the
\* call for chunk i is over, and the consolidation call only after the call
\* of the last chunk.
C22_StrictlySequential ==
    /\ Len(requests) = Len(outcomes) + (IF CallInFlight THEN 1 ELSE 0)
    /\ \A r \in 1..Len(outcomes) :
          /\ outcomes[r].site = requests[r].site
          /\ outcomes[r].section = requests[r].section
    /\ \A r \in 1..Len(requests) :
          /\ requests[r].site = "batch_chunk" => requests[r].section = r
          /\ requests[r].site = "batch_final" => r = Len(chunks) + 1

\* The consolidation call in flight after the calls of three chunks, the
\* second of which failed.
C22_Witness ==
    /\ CallInFlight
    /\ frame = "batch_final"
    /\ Len(outcomes) = 3
    /\ outcomes[2].value = None
    /\ Len(requests) = 4

\* C23 (no retry): within one analysis no two requests carry the same prompt:
\* every chunk, the single-shot text and the consolidation prompt are sent at
\* most once, also after a call that failed.
C23_NoRetry ==
    \A a, b \in 1..Len(requests) :
        (requests[a].site = requests[b].site
            /\ requests[a].section = requests[b].section) => a = b

\* A single-shot analysis that is over after its one call timed out.
C23_Witness ==
    /\ pc_app = "done"
    /\ Len(requests) = 1
    /\ requests[1].site = "main_direct"
    /\ Len(outcomes) = 1
    /\ outcomes[1].kind = "timeout"
    /\ analysis = None

\* The messages stream_chat yields about an error (agent.py:37, 41, 64, 83, 85).
ErrorTexts ==
    {<<"(x) Please select a model first.">>,
     <<"(x) Ollama is not running. Please start Ollama first.">>,
     <<"(x) Connection error">>, <<"(x) Unexpected error">>}
    \cup {<<"(x) Error: " \o ToString(status)>> : status \in StatusCodes \ {StatusOK}}
\* The chat requests of the call under way or last made.
ChatPosts == {r \in 1..Len(chat_requests) : chat_requests[r].kind = "chat"}

\* C25 (error text is never fed back): no chat request carries, as an
\* assistant message, an error message stream_chat yielded in an earlier turn.
C25_ErrorNeverFedBack ==
    \A r \in ChatPosts :
        \A k \in 1..Len(chat_requests[r].messages) :
            chat_requests[r].messages[k].role = "assistant" =>
                chat_requests[r].messages[k].content \notin ErrorTexts

\* The part of C25 that holds: a turn without a reply puts no assistant
\* message into a later request.
C25_EmptyReplyNotFedBack ==
    \A r \in ChatPosts :
        \A k \in 1..Len(chat_requests[r].messages) :
            chat_requests[r].messages[k].content # <<>>

\* The turns before the one chat_with_ollama has added to the history.
PriorTurns == SubSeq(history, 1, Len(history) - 1)
\* The messages of one turn: what the user said, then what the assistant
\* replied, each when it is not empty.
TurnMessages(turn) ==
    (IF turn[1] # <<>> THEN <<[role |-> "user", content |-> turn[1]]>> ELSE <<>>)
    \o (IF turn[2] # <<>> THEN <<[role |-> "assistant", content |-> turn[2]]>> ELSE <<>>)

Blank(m) == \A k \in 1..Len(m) : m[k] \in Whitespace

\* C29 (a blank chat message is a no-op): a call of chat_with_ollama with an
\* empty or whitespace-only message leaves the chat history as it is and sends
\* no request, neither the status check nor the chat.
C29_BlankMessageNoOp ==
    [][(SendMessage /\ Blank(message')) =>
          (history' = history /\ chat_requests' = <<>> /\ pc_chat' = pc_chat)]_vars

\* After a turn the model answered, a message of one space was sent: the
\* history still holds that one turn and no request was sent.
C29_Witness ==
    /\ pc_chat = "idle"
    /\ message = <<" ">>
    /\ Len(history) = 1
    /\ history[1][2] = <<"x">>
    /\ chat_requests = <<>>

\* C26 (search requires a successfully processed PDF): search_employee and
\* get_all_employees send a query to the model only when the last call of
\* process_pdf succeeded; after one that reported an error, and before any,
\* they answer with the 'upload and process a PDF first' message instead.
C26_SearchRequiresProcessedPdf ==
    share_requests # <<>> => process_status = "PDF processed successfully!"

\* The part of C26 that holds: while the module's extracted_text is empty, as
\* before any upload, no query is sent.
C26_NoQueryWithoutText ==
    share_requests # <<>> => global_extracted_text # ""

\* The fields of the result the display reads (main.py:294-295, 320, 334,
\* 348, 361, 371, 380).
DisplayedFields ==
    {"overall_rating", "rating_explanation", "strengths", "areas_for_improvement",
     "specific_suggestions", "keywords_missing", "format_feedback", "summary"}

\* C28 (resume result shape): whatever the model replies and whatever fails,
\* the result analyze_resume returns has all eight fields the display reads.
C28_ResumeResultShape ==
    pc_resume = "done" => DisplayedFields \subseteq DOMAIN resume_analysis

\* The part of C28 that holds: the two results analyze_resume makes itself,
\* after a failure of the call or for a reply that does not load as JSON, have
\* the eight fields.
C28_OwnResultsComplete ==
    (pc_resume = "done" /\ (response_text = None \/ Unparseable(response_text.str))) =>
        DisplayedFields \subseteq DOMAIN resume_analysis

\* The sum of the values of a list.
RECURSIVE Sum(_)
Sum(values) == IF values = <<>> THEN 0 ELSE Head(values) + Sum(Tail(values))

\* C30 (dice game score invariant): at any point of the game the score is the
\* sum of the dice values rolled so far, each between 1 and 6, and the high
\* score equals the score; View Stats changes neither; and the loop of the
\* game ends only with Exit Game.
C30_DiceScoreInvariant ==
    /\ [](/\ \A k \in 1..Len(rolls) : rolls[k] \in 1..6
          /\ score = Sum(rolls)
          /\ high_score = score)
    /\ [][last_action' = "View Stats" =>
             (score' = score /\ high_score' = high_score /\ pc_dice' = pc_dice)]_vars
    /\ [][(pc_dice = "loop" /\ pc_dice' # "loop") => last_action' = "Exit Game"]_vars

\* The statistics are viewed after a 6 and a 1 were rolled: both values are 7.
C30_Witness ==
    /\ pc_dice = "loop"
    /\ rolls = <<6, 1>>
    /\ last_action = "View Stats"
    /\ score = 7
    /\ high_score = 7
====
